---- MODULE Spec2Model ----
(***************************************************************************)
(* Event warehouse ELT pipeline: the CSV ingestor (csv_ingestor.py), the   *)
(* Ticketmaster API ingestor (ingestion/api_ingestor.py) and the           *)
(* orchestrator (scripts/run_pipeline.py), over one PostgreSQL store with  *)
(* the tables raw.events (staging) and raw.ingestion_log (run records).    *)
(* Execution is single-threaded: there is one pipeline invocation at a     *)
(* time and pc is its position.                                            *)
(*                                                                         *)
(* The specifications share every action and differ in the inputs drawn:   *)
(* Spec draws every file and page body of up to MaxRows records, runs the  *)
(* API ingestor with max_pages = 1 and lets every SQL script succeed;      *)
(* SpecPaged draws short bodies, runs the ingestor with max_pages up to    *)
(* MaxPagesArg (the pipeline passes 5) and lets the scripts fail;          *)
(* SpecSkip draws --skip-ingest invocations only and lets the scripts and  *)
(* the queries of the summary fail; SpecFair is SpecPaged with the         *)
(* progress of the running invocation; SpecSched starts the invocations    *)
(* from the scheduler (scheduler.py) instead of the command line.          *)
(***************************************************************************)
EXTENDS Integers, Sequences, FiniteSets, Bags, TLC

\* ------------------------------------------------------------------ bounds
MaxRuns == 2        \* pipeline invocations in one behaviour
MaxRows == 2        \* records in one CSV file or one API page
MaxId   == 2        \* distinct source-native event ids
MaxPagesArg == 2    \* largest max_pages passed to TicketmasterIngestor.run

\* ------------------------------------------------------- program constants
RetryAttempts == 3  \* stop_after_attempt(3)
NumQueries == 7     \* the queries of print_pipeline_summary

\* ------------------------------------------------------------------ values
Null == "<null>"                      \* Python None / SQL NULL / absent key
Ids == {ToString(i) : i \in 1..MaxId}
Names == {"a", "b"}
\* a source record: a CSV line or an API event object, cut to the two fields
\* the store's key and the normalizer's contract are about
Events == [id : Ids \cup {Null}, name : Names \cup {Null}]

RECURSIVE SeqsUpTo(_, _)
SeqsUpTo(S, n) ==
    IF n = 0 THEN {<<>>}
    ELSE LET shorter == SeqsUpTo(S, n - 1)
         IN  shorter \cup {Append(s, x) : s \in {t \in shorter : Len(t) = n - 1}, x \in S}

Batches == SeqsUpTo(Events, MaxRows)
\* the short inputs of the runs that are about paging: at most one record
ShortBatches == {<<>>} \cup {<<e>> : e \in {x \in Events : x.id = "1" /\ x.name # "b"}}
ApiKeys == {Null, "", "k"}            \* os.getenv("TICKETMASTER_API_KEY")
\* the "page" object of a response: totalPages, or absent (-1)
TotalPages == (1..(MaxPagesArg + 1)) \cup {-1}
Responses == [events : Batches, totalPages : {-1, 1}]
PagedResponses == [events : ShortBatches, totalPages : TotalPages]

Range(s) == {s[i] : i \in 1..Len(s)}

\* str(x) of Python, on the values of an id cell
Str(x) == IF x = Null THEN "None" ELSE x

VARIABLES
    pc,           \* position of the running invocation, "idle" between invocations
    invocations,  \* pipeline invocations started so far
    args,         \* argparse result: [source, skip_ingest]
    api_key,      \* environment of the invocation: TICKETMASTER_API_KEY
    exit,         \* "none" while running, else the process exit status: "ok" / "fail"
    err,          \* the exception that left main(), or Null
    staging,      \* committed rows of raw.events: a bag, the table itself holds
                  \* a row as often as it was inserted
    log,          \* committed rows of raw.ingestion_log, by run_id
    conn,         \* the ingestor's connection: "none", "idle", "open", "aborted", "broken"
    pending,      \* bag of raw.events rows inserted on conn and not yet committed
    run_id,       \* run_id of the ingestion run of this invocation, 0 when none
    max_pages,    \* argument of TicketmasterIngestor.run
    page,         \* loop variable of TicketmasterIngestor.run
    attempt,      \* attempts made by the running fetch_events call
    data,         \* response of the last fetch_events call
    total_loaded, \* TicketmasterIngestor.run local
    rows,         \* CsvIngestor.run local: the normalized rows of the file
    caught,       \* the exception TicketmasterIngestor.run caught, or Null
    records,      \* main's local: the count step_extract_load returned
    requested,    \* history: page indices fetch_events was called with, this run
    results,      \* history: <<number of events, totalPages>> of each page obtained
    runInserted,  \* history: rows this run has committed to raw.events
    srcIO,        \* history: this run has started source I/O (file read, page request)
    lastIngest,   \* history: source and records of the last batch committed
    committed,    \* history: page indices whose rows this run has committed
    executed,     \* history: stages started in this invocation
    completed,    \* history: stages completed in this invocation
    pconn,        \* the orchestrator's connection: "none", "idle", "open", "aborted"
    effects,      \* committed effects of the SQL scripts: <<invocation, stage>>
    sum_own,      \* per summary query issued: the query fails on its own
    sum_reports,  \* per summary query issued: what the summary logged for it
    sched,        \* scheduler.py: "off" when it does not run, else its position:
                  \* "sleep", "pending" (inside run_pending), "job" (inside a job)
    due,          \* the jobs run_pending found due and has not run yet, in order
    job,          \* the job function the scheduler is in, or Null
    spawned,      \* the job whose child process exists and has not entered main()
    children,     \* child processes of the scheduler that have not exited
    returncodes   \* history: <<job, exit status>> of every child waited for

vars == <<pc, invocations, args, api_key, exit, err, staging, log, conn, pending,
          run_id, max_pages, page, attempt, data, total_loaded, rows, caught,
          records, requested, results, runInserted, srcIO, lastIngest, committed,
          executed, completed, pconn, effects, sum_own, sum_reports,
          sched, due, job, spawned, children, returncodes>>

dbVars   == <<staging, log, conn, pending>>
apiVars  == <<max_pages, page, attempt, data, total_loaded, caught>>
histVars == <<requested, results, runInserted, srcIO, lastIngest, committed>>
stageVars == <<executed, completed, pconn, effects, sum_own, sum_reports>>
schedVars == <<sched, due, job, spawned, children, returncodes>>

NoCount == -1       \* a count column left NULL, a count not yet returned
NoData == [events |-> <<>>, totalPages |-> -1]
NoIngest == [source |-> Null, records |-> <<>>]

Init ==
    /\ pc = "idle"
    /\ invocations = 0
    /\ args = [source |-> "api", skip_ingest |-> FALSE]
    /\ api_key = Null
    /\ exit = "none"
    /\ err = Null
    /\ staging = EmptyBag
    /\ log = <<>>
    /\ conn = "none"
    /\ pending = EmptyBag
    /\ run_id = 0
    /\ max_pages = 0
    /\ page = 0
    /\ attempt = 0
    /\ data = NoData
    /\ total_loaded = 0
    /\ rows = <<>>
    /\ caught = Null
    /\ records = NoCount
    /\ requested = <<>>
    /\ results = <<>>
    /\ runInserted = {}
    /\ srcIO = FALSE
    /\ lastIngest = NoIngest
    /\ committed = <<>>
    /\ executed = <<>>
    /\ completed = <<>>
    /\ pconn = "none"
    /\ effects = {}
    /\ sum_own = <<>>
    /\ sum_reports = <<>>
    /\ sched = "off"
    /\ due = <<>>
    /\ job = Null
    /\ spawned = Null
    /\ children = 0
    /\ returncodes = <<>>

\* ----------------------------------------------------------------- storage
\* raw.events is keyed by (source, raw_event_id)
KeyOf(r) == <<r.source, r.raw_event_id>>

\* a key column holds no NULL: the INSERT of such a row is an integrity error
KeyIsNull(r) == r.raw_event_id = Null

Conflicts(view, r) == \E q \in BagToSet(view) : KeyOf(q) = KeyOf(r)

\* mutant: the INSERT without its ON CONFLICT clause taking effect
InsertAlways(view, r) == view (+) SetToBag({r})

\* mutant: ON CONFLICT DO UPDATE, the new record replaces the row of its key
InsertOverwrite(view, r) ==
    LET kept == {q \in BagToSet(view) : KeyOf(q) # KeyOf(r)}
    IN  [q \in kept |-> view[q]] (+) SetToBag({r})

\* INSERT INTO raw.events (...) VALUES (...) ON CONFLICT DO NOTHING, one row
InsertOnConflictDoNothing(view, r) ==
    IF Conflicts(view, r) THEN view ELSE view (+) SetToBag({r})

\* mutant: every row of the batch is checked against the table as it was
\* before the batch, so two rows of one batch never conflict
RECURSIVE InsertAgainst(_, _, _)
InsertAgainst(snapshot, view, rs) ==
    IF rs = <<>> THEN view
    ELSE InsertAgainst(snapshot,
                       IF Conflicts(snapshot, Head(rs)) THEN view
                       ELSE view (+) SetToBag({Head(rs)}),
                       Tail(rs))

execute_batch_snapshot(view, rs) == InsertAgainst(view, view, rs)

\* psycopg2.extras.execute_batch(cur, insert_sql, rows): the rows in order
RECURSIVE execute_batch(_, _)
execute_batch(view, rs) ==
    IF rs = <<>> THEN view
    ELSE execute_batch(InsertOnConflictDoNothing(view, Head(rs)), Tail(rs))

\* the server rejects the batch: some row has a NULL key
Rejected(rs) == \E i \in 1..Len(rs) : KeyIsNull(rs[i])

\* how a bulk upsert can fail: not at all; a server-side error inside
\* execute_batch (the transaction is aborted); a client-side error inside
\* execute_batch after some chunks were executed (the transaction stays open);
\* a lost connection at conn.commit()
Faults == {"none", "server", "client", "commit"}

\* -------------------------------------------------------------- normalizers
\* TicketmasterIngestor.parse_event
parse_event(e) ==
    [source |-> "ticketmaster", raw_event_id |-> e.id, event_name |-> e.name]

\* the row dict CsvIngestor.run builds from one line of the file
csv_row(e) ==
    [source |-> "csv", raw_event_id |-> Str(e.id), event_name |-> e.name]

MapSeq(f(_), s) == [i \in 1..Len(s) |-> f(s[i])]

\* page_info.get("totalPages", 1)
TotalPagesOf(d) == IF d.totalPages = -1 THEN 1 ELSE d.totalPages

\* mutant: the last-page test off by one
IsLastPage_late(p, d) == p >= TotalPagesOf(d)

\* if page >= page_info.get("totalPages", 1) - 1: break
IsLastPage(p, d) == p >= TotalPagesOf(d) - 1

\* for page in range(max_pages): is there a next iteration after page p
HasNextPage(p, m) == p + 1 < m

\* ------------------------------------------------------------ orchestrator
Stages == <<"transform", "load_facts", "quality_checks", "create_kpi_views", "summary">>

StageIndex(s) == CHOOSE i \in 1..Len(Stages) : Stages[i] = s

\* an exception leaves main(): the process ends with a failure status
Raise(e) ==
    /\ pc' = "idle"
    /\ exit' = "fail"
    /\ err' = e

\* mutant: main() ingests whatever --skip-ingest says
main_always_ingests(Skips) ==
    /\ pc = "idle"
    /\ invocations < MaxRuns
    /\ invocations' = invocations + 1
    /\ \E src \in {"api", "csv"}, skip \in Skips :
          /\ args' = [source |-> src, skip_ingest |-> skip]
          /\ pc' = "extract_load"
    /\ exit' = "none"
    /\ err' = Null
    /\ api_key' = Null
    /\ conn' = "none"
    /\ run_id' = 0
    /\ max_pages' = 0
    /\ page' = 0
    /\ attempt' = 0
    /\ data' = NoData
    /\ total_loaded' = 0
    /\ rows' = <<>>
    /\ caught' = Null
    /\ records' = NoCount
    /\ requested' = <<>>
    /\ results' = <<>>
    /\ runInserted' = {}
    /\ srcIO' = FALSE
    /\ committed' = <<>>
    /\ executed' = <<>>
    /\ completed' = <<>>
    /\ pconn' = "none"
    /\ sum_own' = <<>>
    /\ sum_reports' = <<>>
    /\ UNCHANGED <<staging, log, pending, lastIngest, effects>>

\* main(): parse the arguments, then ingest unless --skip-ingest
main(Skips) ==
    /\ pc = "idle"
    /\ invocations < MaxRuns
    /\ invocations' = invocations + 1
    /\ \E src \in {"api", "csv"}, skip \in Skips :
          /\ args' = [source |-> src, skip_ingest |-> skip]
          /\ pc' = IF skip THEN "transform" ELSE "extract_load"
    /\ exit' = "none"
    /\ err' = Null
    /\ api_key' = Null
    /\ conn' = "none"
    /\ run_id' = 0
    /\ max_pages' = 0
    /\ page' = 0
    /\ attempt' = 0
    /\ data' = NoData
    /\ total_loaded' = 0
    /\ rows' = <<>>
    /\ caught' = Null
    /\ records' = NoCount
    /\ requested' = <<>>
    /\ results' = <<>>
    /\ runInserted' = {}
    /\ srcIO' = FALSE
    /\ committed' = <<>>
    /\ executed' = <<>>
    /\ completed' = <<>>
    /\ pconn' = "none"
    /\ sum_own' = <<>>
    /\ sum_reports' = <<>>
    /\ UNCHANGED <<staging, log, pending, lastIngest, effects>>

\* python scripts/run_pipeline.py from the command line
cli(Skips) == main(Skips) /\ UNCHANGED schedVars

\* ------------------------------------------------------------ API ingestor
\* mutant: the constructor stores the key without testing it
TicketmasterIngestor_init_unchecked ==
    /\ pc = "extract_load"
    /\ args.source = "api"
    /\ \E key \in ApiKeys : api_key' = key
    /\ pc' = "run_start"
    /\ UNCHANGED <<schedVars, exit, err, invocations, args, rows, records>>
    /\ UNCHANGED <<dbVars, run_id, apiVars, histVars, stageVars>>

\* TicketmasterIngestor.__init__: read the key, raise when it is not set
TicketmasterIngestor_init ==
    /\ pc = "extract_load"
    /\ args.source = "api"
    /\ \E key \in ApiKeys :
          /\ api_key' = key
          /\ IF key = Null \/ key = ""
             THEN Raise("ValueError")
             ELSE /\ pc' = "run_start"
                  /\ UNCHANGED <<exit, err>>
    /\ UNCHANGED <<schedVars, invocations, args, rows, records>>
    /\ UNCHANGED <<dbVars, run_id, apiVars, histVars, stageVars>>

\* TicketmasterIngestor.run, up to the loop: new run_id, connect, INSERT the
\* run record as 'running', commit
run_log_start(PageArgs) ==
    /\ pc = "run_start"
    /\ \E m \in PageArgs : max_pages' = m
    /\ run_id' = Len(log) + 1
    /\ log' = Append(log, [source |-> "ticketmaster", status |-> "running",
                           records_fetched |-> NoCount, records_loaded |-> NoCount,
                           error_message |-> Null, finished_at |-> FALSE])
    /\ conn' = "idle"
    /\ page' = 0
    /\ attempt' = 0
    /\ total_loaded' = 0
    /\ pc' = "fetch"
    /\ UNCHANGED <<schedVars, invocations, args, api_key, exit, err, staging, pending, data,
                   rows, caught, records, histVars, stageVars>>

\* mutant: the retry never gives up, its count of attempts starts over
fetch_events_fails_forever ==
    /\ pc = "fetch"
    /\ attempt < RetryAttempts
    /\ attempt' = IF attempt + 1 >= RetryAttempts THEN 1 ELSE attempt + 1
    /\ requested' = IF attempt = 0 THEN Append(requested, page) ELSE requested
    /\ srcIO' = TRUE
    /\ pc' = "fetch"
    /\ caught' = caught
    /\ UNCHANGED <<schedVars, invocations, args, api_key, exit, err, dbVars, run_id, max_pages,
                   page, data, total_loaded, rows, records, results, runInserted,
                   lastIngest, committed, stageVars>>

\* mutant: the retry gives up one attempt late
fetch_events_fails_late ==
    /\ pc = "fetch"
    /\ attempt < RetryAttempts + 1
    /\ attempt' = attempt + 1
    /\ requested' = IF attempt = 0 THEN Append(requested, page) ELSE requested
    /\ srcIO' = TRUE
    /\ IF attempt + 1 >= RetryAttempts + 1
       THEN pc' = "except" /\ caught' = "RetryError"
       ELSE pc' = "fetch" /\ caught' = caught
    /\ UNCHANGED <<schedVars, invocations, args, api_key, exit, err, dbVars, run_id, max_pages,
                   page, data, total_loaded, rows, records, results, runInserted,
                   lastIngest, committed, stageVars>>

\* one attempt of fetch_events(page) fails: a network error or a non-2xx
\* status; tenacity retries until RetryAttempts attempts are spent
fetch_events_fails ==
    /\ pc = "fetch"
    /\ attempt < RetryAttempts
    /\ attempt' = attempt + 1
    /\ requested' = IF attempt = 0 THEN Append(requested, page) ELSE requested
    /\ srcIO' = TRUE
    /\ IF attempt + 1 >= RetryAttempts
       THEN pc' = "except" /\ caught' = "RetryError"
       ELSE pc' = "fetch" /\ caught' = caught
    /\ UNCHANGED <<schedVars, invocations, args, api_key, exit, err, dbVars, run_id, max_pages,
                   page, data, total_loaded, rows, records, results, runInserted,
                   lastIngest, committed, stageVars>>

\* one attempt of fetch_events(page) returns the JSON body
fetch_events_ok(Bodies) ==
    /\ pc = "fetch"
    /\ attempt < RetryAttempts
    /\ \E d \in Bodies :
          /\ data' = d
          /\ results' = Append(results, <<Len(d.events), d.totalPages>>)
    /\ attempt' = attempt + 1
    /\ requested' = IF attempt = 0 THEN Append(requested, page) ELSE requested
    /\ srcIO' = TRUE
    /\ pc' = "page"
    /\ UNCHANGED <<schedVars, invocations, args, api_key, exit, err, dbVars, run_id, max_pages,
                   page, total_loaded, rows, caught, records, runInserted,
                   lastIngest, committed, stageVars>>

\* if not events: break
run_no_events ==
    /\ pc = "page"
    /\ data.events = <<>>
    /\ data' = NoData
    /\ pc' = "log_success"
    /\ UNCHANGED <<schedVars, invocations, args, api_key, exit, err, dbVars, run_id, max_pages,
                   page, attempt, total_loaded, rows, caught, records, histVars,
                   stageVars>>

\* mutant: the count of the page replaces the running total
accumulate_overwrite(total, loaded) == loaded

\* total_loaded += loaded
accumulate(total, loaded) == total + loaded

\* mutant: load_to_raw leaves the commit of a page to the end of the run
load_to_raw_deferred ==
    /\ pc = "page"
    /\ data.events # <<>>
    /\ LET rs == MapSeq(parse_event, data.events) IN
       \E fault \in Faults :
          \/ /\ fault = "none"
             /\ ~Rejected(rs)
             /\ pending' = execute_batch(staging (+) pending, rs) (-) staging
             /\ conn' = "open"
             /\ UNCHANGED <<staging, runInserted, lastIngest, committed>>
             /\ total_loaded' = accumulate(total_loaded, Len(rs))
             /\ IF IsLastPage(page, data) \/ ~HasNextPage(page, max_pages)
                THEN pc' = "log_success" /\ page' = page /\ attempt' = attempt
                ELSE pc' = "fetch" /\ page' = page + 1 /\ attempt' = 0
             /\ caught' = caught
             /\ data' = NoData
          \/ /\ fault = "server" \/ Rejected(rs)
             /\ conn' = "aborted"
             /\ caught' = "DatabaseError"
             /\ pc' = "except"
             /\ UNCHANGED <<staging, pending, runInserted, lastIngest, committed,
                            total_loaded, page, attempt, data>>
          \/ /\ fault = "client"
             /\ \E n \in 0..(Len(rs) - 1) :
                   /\ ~Rejected(SubSeq(rs, 1, n))
                   /\ pending' = execute_batch(staging (+) pending, SubSeq(rs, 1, n))
                                     (-) staging
             /\ conn' = "open"
             /\ caught' = "ProgrammingError"
             /\ pc' = "except"
             /\ UNCHANGED <<staging, runInserted, lastIngest, committed, total_loaded,
                            page, attempt, data>>
          \/ /\ fault = "commit"
             /\ ~Rejected(rs)
             /\ conn' = "broken"
             /\ caught' = "OperationalError"
             /\ pc' = "except"
             /\ UNCHANGED <<staging, pending, runInserted, lastIngest, committed,
                            total_loaded, page, attempt, data>>
    /\ UNCHANGED <<schedVars, invocations, args, api_key, exit, err, log, run_id, max_pages,
                   rows, records, requested, results, srcIO, stageVars>>

\* rows = [parse_event(e) ...]; load_to_raw(conn, rows, run_id): execute_batch,
\* commit; total_loaded += loaded; the last-page check and the loop header
load_to_raw ==
    /\ pc = "page"
    /\ data.events # <<>>
    /\ LET rs == MapSeq(parse_event, data.events) IN
       \E fault \in Faults :
          \/ /\ fault = "none"
             /\ ~Rejected(rs)
             /\ staging' = execute_batch(staging (+) pending, rs)
             /\ pending' = EmptyBag
             /\ conn' = "idle"
             /\ runInserted' = runInserted \cup BagToSet(staging' (-) staging)
             /\ lastIngest' = [source |-> "ticketmaster", records |-> rs]
             /\ committed' = Append(committed, page)
             /\ total_loaded' = accumulate(total_loaded, Len(rs))
             /\ IF IsLastPage(page, data) \/ ~HasNextPage(page, max_pages)
                THEN pc' = "log_success" /\ page' = page /\ attempt' = attempt
                ELSE pc' = "fetch" /\ page' = page + 1 /\ attempt' = 0
             /\ caught' = caught
             /\ data' = NoData
          \/ /\ fault = "server" \/ Rejected(rs)
             /\ conn' = "aborted"
             /\ caught' = "DatabaseError"
             /\ pc' = "except"
             /\ UNCHANGED <<staging, pending, runInserted, lastIngest, committed,
                            total_loaded, page, attempt, data>>
          \/ /\ fault = "client"
             /\ \E n \in 0..(Len(rs) - 1) :
                   /\ ~Rejected(SubSeq(rs, 1, n))
                   /\ pending' = execute_batch(staging (+) pending, SubSeq(rs, 1, n))
                                     (-) staging
             /\ conn' = "open"
             /\ caught' = "ProgrammingError"
             /\ pc' = "except"
             /\ UNCHANGED <<staging, runInserted, lastIngest, committed, total_loaded,
                            page, attempt, data>>
          \/ /\ fault = "commit"
             /\ ~Rejected(rs)
             /\ conn' = "broken"
             /\ caught' = "OperationalError"
             /\ pc' = "except"
             /\ UNCHANGED <<staging, pending, runInserted, lastIngest, committed,
                            total_loaded, page, attempt, data>>
    /\ UNCHANGED <<schedVars, invocations, args, api_key, exit, err, log, run_id, max_pages,
                   rows, records, requested, results, srcIO, stageVars>>

\* after the loop: UPDATE the run record to 'success', commit; finally close;
\* return total_loaded to step_extract_load and main
run_log_success ==
    /\ pc = "log_success"
    /\ log' = [log EXCEPT ![run_id] = [@ EXCEPT !.status = "success",
                                                !.records_loaded = total_loaded,
                                                !.finished_at = TRUE]]
    /\ conn' = "none"
    /\ records' = total_loaded
    /\ pc' = "transform"
    /\ UNCHANGED <<schedVars, invocations, args, api_key, exit, err, staging, pending, run_id,
                   apiVars, rows, histVars, stageVars>>

\* mutant: the handler's UPDATE is never committed before close()
run_except_uncommitted ==
    /\ pc = "except"
    /\ err' = caught
    /\ pending' = EmptyBag
    /\ conn' = "none"
    /\ pc' = "idle"
    /\ exit' = "fail"
    /\ UNCHANGED <<log, staging, runInserted>>
    /\ UNCHANGED <<schedVars, invocations, args, api_key, run_id, apiVars, rows, records,
                   requested, results, srcIO, lastIngest, committed, stageVars>>

\* except Exception as e: UPDATE the run record to 'failed', commit, raise;
\* finally close. On an aborted transaction or a lost connection the UPDATE
\* itself raises, and close() rolls back what was pending
run_except ==
    /\ pc = "except"
    /\ IF conn \in {"aborted", "broken"}
       THEN /\ err' = IF conn = "aborted" THEN "InFailedSqlTransaction" ELSE "InterfaceError"
            /\ UNCHANGED <<log, staging, runInserted>>
       ELSE /\ log' = [log EXCEPT ![run_id] = [@ EXCEPT !.status = "failed",
                                                       !.error_message = caught,
                                                       !.finished_at = TRUE]]
            /\ staging' = staging (+) pending
            /\ runInserted' = runInserted \cup BagToSet(pending)
            /\ err' = caught
    /\ pending' = EmptyBag
    /\ conn' = "none"
    /\ pc' = "idle"
    /\ exit' = "fail"
    /\ UNCHANGED <<schedVars, invocations, args, api_key, run_id, apiVars, rows, records,
                   requested, results, srcIO, lastIngest, committed, stageVars>>

\* ------------------------------------------------------------ CSV ingestor
\* CsvIngestor.run, first half: new run_id, pd.read_csv (which raises when the
\* file is missing or cannot be parsed), NaN -> None, build the row dicts
CsvIngestor_read(Files) ==
    /\ pc = "extract_load"
    /\ args.source = "csv"
    /\ run_id' = Len(log) + 1
    /\ srcIO' = TRUE
    /\ \/ /\ Raise("FileNotFoundError")
          /\ rows' = rows
       \/ /\ \E f \in Files : rows' = MapSeq(csv_row, f)
          /\ pc' = "csv_load"
          /\ UNCHANGED <<exit, err>>
    /\ UNCHANGED <<schedVars, invocations, args, api_key, dbVars, apiVars, records, requested,
                   results, runInserted, lastIngest, committed, stageVars>>

\* CsvIngestor.run, second half: connect, execute_batch, INSERT the run record
\* as 'success', one commit for both, close, return len(rows). An exception on
\* the way leaves the function with nothing committed
CsvIngestor_load ==
    /\ pc = "csv_load"
    /\ \E fault \in Faults :
          \/ /\ fault = "none"
             /\ ~Rejected(rows)
             /\ staging' = execute_batch(staging, rows)
             /\ log' = Append(log, [source |-> "csv", status |-> "success",
                                    records_fetched |-> Len(rows),
                                    records_loaded |-> Len(rows),
                                    error_message |-> Null, finished_at |-> TRUE])
             /\ runInserted' = runInserted \cup BagToSet(staging' (-) staging)
             /\ lastIngest' = [source |-> "csv", records |-> rows]
             /\ records' = Len(rows)
             /\ pc' = "transform"
             /\ UNCHANGED <<exit, err>>
          \/ /\ fault # "none" \/ Rejected(rows)
             /\ Raise(CASE fault = "client" -> "ProgrammingError"
                        [] fault = "commit" -> "OperationalError"
                        [] OTHER -> "DatabaseError")
             /\ UNCHANGED <<staging, log, runInserted, lastIngest, records>>
    /\ conn' = "none"
    /\ pending' = EmptyBag
    /\ UNCHANGED <<schedVars, invocations, args, api_key, run_id, apiVars, rows, requested,
                   results, srcIO, committed, stageVars>>

\* ------------------------------------------------------------------ stages
\* mutant: the exception of a stage is logged and not re-raised
run_stage_swallow(s, ok) ==
    /\ pc = s
    /\ executed' = Append(executed, s)
    /\ completed' = IF ok THEN Append(completed, s) ELSE completed
    /\ effects' = IF ok THEN effects \cup {<<invocations, s>>} ELSE effects
    /\ pconn' = "idle"
    /\ pc' = Stages[StageIndex(s) + 1]
    /\ UNCHANGED <<exit, err, sum_own, sum_reports>>
    /\ UNCHANGED <<schedVars, invocations, args, api_key, dbVars, run_id, apiVars, rows,
                   records, histVars>>

\* mutant: main's handler undoes the scripts of the invocation before it
\* re-raises
run_stage_compensate(s, ok) ==
    /\ pc = s
    /\ executed' = Append(executed, s)
    /\ IF ok
       THEN /\ completed' = Append(completed, s)
            /\ effects' = effects \cup {<<invocations, s>>}
            /\ pconn' = "idle"
            /\ pc' = Stages[StageIndex(s) + 1]
            /\ UNCHANGED <<exit, err>>
       ELSE /\ completed' = completed
            /\ effects' = {e \in effects : e[1] # invocations}
            /\ pconn' = "none"
            /\ Raise("StageError")
    /\ UNCHANGED <<sum_own, sum_reports>>
    /\ UNCHANGED <<schedVars, invocations, args, api_key, dbVars, run_id, apiVars, rows,
                   records, histVars>>

\* one of step_transform, step_load_facts, step_quality_checks,
\* step_create_kpi_views on main's connection: run_sql_file either commits the
\* script or raises; main's except logs and re-raises, finally closes the
\* connection, which rolls back what the failed script had not committed
run_stage(s, ok) ==
    /\ pc = s
    /\ executed' = Append(executed, s)
    /\ IF ok
       THEN /\ completed' = Append(completed, s)
            /\ effects' = effects \cup {<<invocations, s>>}
            /\ pconn' = "idle"
            /\ pc' = Stages[StageIndex(s) + 1]
            /\ UNCHANGED <<exit, err>>
       ELSE /\ completed' = completed
            /\ effects' = effects
            /\ pconn' = "none"
            /\ Raise("StageError")
    /\ UNCHANGED <<sum_own, sum_reports>>
    /\ UNCHANGED <<schedVars, invocations, args, api_key, dbVars, run_id, apiVars, rows,
                   records, histVars>>

step_transform(Oks) == \E ok \in Oks : run_stage("transform", ok)

step_load_facts(Oks) == \E ok \in Oks : run_stage("load_facts", ok)

step_quality_checks(Oks) == \E ok \in Oks : run_stage("quality_checks", ok)

step_create_kpi_views(Oks) == \E ok \in Oks : run_stage("create_kpi_views", ok)

\* what the loop of print_pipeline_summary logs for a query: its count, or
\* "ERROR" when cur.execute raised, be it for the query itself or because the
\* transaction of the connection is aborted
Report(own, tx) == IF own \/ tx = "aborted" THEN "ERROR" ELSE "ok"

\* one iteration of the loop of print_pipeline_summary: cur.execute(query)
\* inside try/except on the one cursor of main's connection; the handler logs
\* a warning and does not roll back
summary_query(Owns) ==
    /\ pc = "summary"
    /\ Len(sum_reports) < NumQueries
    /\ \E own \in Owns :
          /\ sum_own' = Append(sum_own, own)
          /\ sum_reports' = Append(sum_reports, Report(own, pconn))
          /\ pconn' = IF Report(own, pconn) = "ERROR" THEN "aborted" ELSE "open"
    /\ UNCHANGED <<pc, exit, err, executed, completed, effects>>
    /\ UNCHANGED <<schedVars, invocations, args, api_key, dbVars, run_id, apiVars, rows,
                   records, histVars>>

\* print_pipeline_summary returns after its last query and main() ends
\* normally: finally closes the connection
print_pipeline_summary ==
    /\ pc = "summary"
    /\ Len(sum_reports) = NumQueries
    /\ executed' = Append(executed, "summary")
    /\ completed' = Append(completed, "summary")
    /\ pconn' = "none"
    /\ pc' = "idle"
    /\ exit' = "ok"
    /\ err' = Null
    /\ UNCHANGED <<effects, sum_own, sum_reports>>
    /\ UNCHANGED <<schedVars, invocations, args, api_key, dbVars, run_id, apiVars, rows,
                   records, histVars>>

\* the steps of the ingestors that take no input
Internal ==
    \/ TicketmasterIngestor_init
    \/ fetch_events_fails
    \/ run_no_events
    \/ load_to_raw
    \/ run_log_success
    \/ run_except
    \/ CsvIngestor_load

\* the stages after ingestion, with the outcomes drawn for the scripts and for
\* the queries of the summary
Pipeline(Oks, Owns) ==
    \/ step_transform(Oks)
    \/ step_load_facts(Oks)
    \/ step_quality_checks(Oks)
    \/ step_create_kpi_views(Oks)
    \/ summary_query(Owns)
    \/ print_pipeline_summary

\* every file and every page body up to MaxRows records, one page per API run,
\* no failing script or summary query
Next ==
    \/ cli(BOOLEAN)
    \/ Internal
    \/ run_log_start({1})
    \/ fetch_events_ok(Responses)
    \/ CsvIngestor_read(Batches)
    \/ Pipeline({TRUE}, {FALSE})

Spec == Init /\ [][Next]_vars

\* API runs of up to MaxPagesArg pages, short files and page bodies, failing
\* scripts
RunPaged ==
    \/ Internal
    \/ run_log_start(1..MaxPagesArg)
    \/ fetch_events_ok(PagedResponses)
    \/ CsvIngestor_read(ShortBatches)
    \/ Pipeline(BOOLEAN, {FALSE})

NextPaged ==
    \/ cli(BOOLEAN)
    \/ RunPaged

SpecPaged == Init /\ [][NextPaged]_vars

\* SpecPaged with progress: the one thread of a started invocation takes its
\* next step; every call it blocks in returns or raises (the HTTP request has
\* a timeout, the retry waits between 2 and 10 seconds)
SpecFair == SpecPaged /\ WF_vars(RunPaged)

\* invocations with --skip-ingest, failing scripts and summary queries
NextSkip ==
    \/ cli({TRUE})
    \/ Pipeline(BOOLEAN, BOOLEAN)

SpecSkip == Init /\ [][NextSkip]_vars

\* --------------------------------------------------------------- scheduler
\* the two jobs of scheduler.py
Jobs == {"full", "quality"}

\* the command line of the child process of a job
JobArgs(j) == [source |-> "api", skip_ingest |-> (j = "quality")]

\* what one call of schedule.run_pending() can find due: any of the jobs, in
\* the order of their next_run times
Dues == {d \in SeqsUpTo(Jobs, Cardinality(Jobs)) : \A i, j \in 1..Len(d) : d[i] = d[j] => i = j}

\* python scripts/scheduler.py: the jobs are registered, the loop is entered
scheduler_start ==
    /\ sched = "off"
    /\ pc = "idle"
    /\ invocations = 0
    /\ sched' = "sleep"
    /\ UNCHANGED <<due, job, spawned, children, returncodes>>
    /\ UNCHANGED <<pc, invocations, args, api_key, exit, err, dbVars, run_id, apiVars,
                   rows, records, histVars, stageVars>>

\* while True: schedule.run_pending() collects the jobs that are due
run_pending(Found) ==
    /\ sched = "sleep"
    /\ \E d \in Found :
          /\ Len(d) + invocations <= MaxRuns
          /\ due' = d
    /\ sched' = "pending"
    /\ UNCHANGED <<job, spawned, children, returncodes>>
    /\ UNCHANGED <<pc, invocations, args, api_key, exit, err, dbVars, run_id, apiVars,
                   rows, records, histVars, stageVars>>

\* run_pending() has run every job it found due and returns; time.sleep(60)
sleep ==
    /\ sched = "pending"
    /\ due = <<>>
    /\ sched' = "sleep"
    /\ UNCHANGED <<due, job, spawned, children, returncodes>>
    /\ UNCHANGED <<pc, invocations, args, api_key, exit, err, dbVars, run_id, apiVars,
                   rows, records, histVars, stageVars>>

\* run_pending() calls the next due job: the job function calls
\* subprocess.run, which creates the child process
job_spawn(j) ==
    /\ sched = "pending"
    /\ due # <<>>
    /\ Head(due) = j
    /\ due' = Tail(due)
    /\ job' = j
    /\ spawned' = j
    /\ children' = children + 1
    /\ sched' = "job"
    /\ UNCHANGED returncodes
    /\ UNCHANGED <<pc, invocations, args, api_key, exit, err, dbVars, run_id, apiVars,
                   rows, records, histVars, stageVars>>

\* run_full_pipeline: run_pipeline.py --source api
run_full_pipeline == job_spawn("full")

\* run_quality_only: run_pipeline.py --skip-ingest
run_quality_only == job_spawn("quality")

\* the child process enters main() with the command line of its job
child_main ==
    /\ spawned # Null
    /\ main({JobArgs(spawned).skip_ingest})
    /\ args' = JobArgs(spawned)
    /\ spawned' = Null
    /\ UNCHANGED <<sched, due, job, children, returncodes>>

\* mutant: the job function starts the child and does not wait for it
job_returns_nowait ==
    /\ sched = "job"
    /\ job' = Null
    /\ sched' = "pending"
    /\ UNCHANGED <<due, spawned, children, returncodes>>
    /\ UNCHANGED <<pc, invocations, args, api_key, exit, err, dbVars, run_id, apiVars,
                   rows, records, histVars, stageVars>>

\* subprocess.run returns when the child has exited; the job function logs
\* success or the child's stderr by the return code and returns to
\* run_pending(), whatever the code is
job_returns ==
    /\ sched = "job"
    /\ spawned = Null
    /\ pc = "idle"
    /\ exit # "none"
    /\ returncodes' = Append(returncodes, <<job, exit>>)
    /\ children' = children - 1
    /\ job' = Null
    /\ sched' = "pending"
    /\ UNCHANGED <<due, spawned>>
    /\ UNCHANGED <<pc, invocations, args, api_key, exit, err, dbVars, run_id, apiVars,
                   rows, records, histVars, stageVars>>

\* the steps of scheduler.py
Scheduler ==
    \/ scheduler_start
    \/ run_pending(Dues)
    \/ sleep
    \/ run_full_pipeline
    \/ run_quality_only
    \/ job_returns

\* the steps of the API ingestor that take no input
ApiSteps ==
    \/ TicketmasterIngestor_init
    \/ fetch_events_fails
    \/ run_no_events
    \/ load_to_raw
    \/ run_log_success
    \/ run_except

\* the scheduler and its child processes: API runs of one page, short page
\* bodies, failing scripts
NextSched ==
    \/ Scheduler
    \/ child_main
    \/ ApiSteps
    \/ run_log_start({1})
    \/ fetch_events_ok(PagedResponses)
    \/ Pipeline(BOOLEAN, {FALSE})

SpecSched == Init /\ [][NextSched]_vars

TypeOK ==
    /\ pc \in {"idle", "extract_load", "run_start", "fetch", "page", "log_success",
               "except", "csv_load"} \cup Range(Stages)
    /\ invocations \in 0..MaxRuns
    /\ exit \in {"none", "ok", "fail"}
    /\ conn \in {"none", "idle", "open", "aborted", "broken"}
    /\ run_id \in 0..(Len(log) + 1)
    /\ page \in 0..MaxPagesArg
    /\ attempt \in 0..RetryAttempts

\* ================================================================== claims
Rows(b) == BagToSet(b)

DistinctIds(rs) == \A i, j \in 1..Len(rs) : rs[i].raw_event_id = rs[j].raw_event_id => i = j

\* the step commits the batch of a CSV file
CsvCommitStep == pc = "csv_load" /\ pc' = "transform"

\* the step commits the batch of an API page
PageCommitStep == pc = "page" /\ data.events # <<>> /\ pc' \in {"fetch", "log_success"}

\* the step commits the very batch that was committed last
ReingestStep ==
    \/ CsvCommitStep /\ lastIngest = [source |-> "csv", records |-> rows]
    \/ PageCommitStep /\ lastIngest = [source |-> "ticketmaster",
                                       records |-> MapSeq(parse_event, data.events)]

\* C1: ingesting the batch that was ingested last (the same file, the same API
\* page) changes neither the set nor the number of staging rows; and a CSV of
\* N rows with distinct event ids, ingested into an empty store, leaves N rows
C1_Idempotent ==
    [][/\ ReingestStep =>
            staging' = staging /\ BagCardinality(staging') = BagCardinality(staging)
       /\ (CsvCommitStep /\ staging = EmptyBag /\ DistinctIds(rows)) =>
            BagCardinality(staging') = Len(rows)]_vars

\* C1 witness: the second of two successful CSV runs has ended; both loaded
\* MaxRows rows with distinct ids, and staging holds exactly the file's rows
C1_Witness ==
    /\ pc = "transform"
    /\ args.source = "csv"
    /\ Len(log) = 2
    /\ \A i \in 1..2 : log[i].source = "csv" /\ log[i].records_loaded = MaxRows
    /\ Len(rows) = MaxRows
    /\ DistinctIds(rows)
    /\ lastIngest.records = rows
    /\ Rows(staging) = Range(rows)
    /\ BagCardinality(staging) = MaxRows

\* C2: in every reachable state every (source, raw_event_id) occurs in at
\* most one row of raw.events
C2_UniqueKeys ==
    \A r \in Rows(staging) :
        /\ CopiesIn(r, staging) = 1
        /\ \A q \in Rows(staging) : KeyOf(q) = KeyOf(r) => q = r

\* C2 witness: staging holds rows of both sources, and the batch committed
\* last carried a record whose key was taken by a different row
C2_Witness ==
    /\ \E r \in Rows(staging) : r.source = "csv"
    /\ \E r \in Rows(staging) : r.source = "ticketmaster"
    /\ \E i \in 1..Len(lastIngest.records) :
          /\ lastIngest.records[i] \notin Rows(staging)
          /\ Conflicts(staging, lastIngest.records[i])

\* C3: an API run with max_pages = M requests the pages 0..k-1 in order, k <= M,
\* and a page is followed by a further request only if it returned records and
\* its index is below the last page the server reported
C3_PageRequests ==
    /\ Len(requested) <= max_pages
    /\ \A i \in 1..Len(requested) : requested[i] = i - 1
    /\ \A i \in 1..Len(results) :
          i < Len(requested) =>
             /\ results[i][1] > 0
             /\ results[i][2] # -1 => requested[i] < results[i][2] - 1

\* C3 witness: a run allowed MaxPagesArg pages has left its loop after page 0,
\* which returned records and was reported to be the last page
C3_Witness ==
    /\ pc = "log_success"
    /\ max_pages = MaxPagesArg
    /\ requested = <<0>>
    /\ results[1][1] > 0
    /\ results[1][2] = 1

\* the API run of this invocation has ended: run() returned or raised
ApiRunEnded ==
    /\ args.source = "api"
    /\ run_id # 0
    /\ pc \notin {"run_start", "fetch", "page", "log_success", "except"}

\* C4: when a page fetch has failed on all its attempts, the run ends with its
\* run record 'failed', with an error message and a finish time, and the rows
\* the run committed from earlier pages are in staging
C4_FetchExhausted ==
    (ApiRunEnded /\ caught = "RetryError") =>
        /\ run_id \in DOMAIN log
        /\ log[run_id].status = "failed"
        /\ log[run_id].error_message # Null
        /\ log[run_id].finished_at
        /\ runInserted \subseteq Rows(staging)
        /\ exit = "fail"

\* C4 witness: the fetch of page 1 was given up after page 0 was committed
C4_Witness ==
    /\ ApiRunEnded
    /\ caught = "RetryError"
    /\ page = 1
    /\ attempt = RetryAttempts
    /\ runInserted # {}

IsPrefix(s, t) == Len(s) <= Len(t) /\ \A i \in 1..Len(s) : s[i] = t[i]

\* C5: the stages run in the fixed order; a stage starts only when the stage
\* before it completed, so the stage that raised is the last one started; and
\* an invocation whose stages all completed ran all of them
C5_StageSequence ==
    /\ IsPrefix(executed, Stages)
    /\ IsPrefix(completed, executed)
    /\ Len(executed) <= Len(completed) + 1
    /\ Len(completed) < Len(executed) => pc = "idle" /\ exit = "fail"
    /\ (pc = "idle" /\ executed # <<>> /\ completed = executed) =>
            executed = Stages /\ exit = "ok"
    /\ pc \in Range(Stages) => Stages[Len(completed) + 1] = pc

\* C5 witness: load_facts raised after transform completed, and the pipeline
\* has halted
C5_Witness ==
    /\ pc = "idle"
    /\ exit = "fail"
    /\ executed = <<"transform", "load_facts">>
    /\ completed = <<"transform">>

\* the CSV run of this invocation has ended: run() returned or raised
CsvRunEnded ==
    /\ args.source = "csv"
    /\ run_id # 0
    /\ pc \notin {"extract_load", "csv_load"}

\* C6: when a run of the file-based ingestor has ended, its run record exists
\* and is terminal: 'success' when run() returned, 'failed' when it raised
C6_CsvTerminalRecord ==
    CsvRunEnded =>
        /\ run_id \in DOMAIN log
        /\ log[run_id].source = "csv"
        /\ log[run_id].status = IF records # NoCount THEN "success" ELSE "failed"

\* C7: when an API run has returned or raised, its run record is terminal
\* ('success' or 'failed'), never left 'running'
C7_ApiTerminalRecord ==
    ApiRunEnded =>
        /\ run_id \in DOMAIN log
        /\ log[run_id].status \in {"success", "failed"}

\* C8: the run record of an ingestion run is committed before the run starts
\* any source I/O, and every commit of data rows happens while that record is
\* still 'running'
C8_RunningBeforeIO ==
    /\ srcIO => run_id \in DOMAIN log
    /\ runInserted # {} => run_id \in DOMAIN log

Malformed(e) == e.id = Null \/ e.name = Null

\* C9: no staging row comes from a source record whose event id or event
\* name is missing
C9_NoMalformedRow ==
    \A r \in Rows(staging) :
        ~ \E e \in Events : Malformed(e) /\ r \in {csv_row(e), parse_event(e)}

\* C10: an API invocation whose key is absent or empty ends in the constructor
\* with ValueError: no page was requested, no run record created, no staging
\* row written, no stage run
C10_NoKeyFailsFast ==
    (/\ args.source = "api"
     /\ ~args.skip_ingest
     /\ invocations > 0
     /\ pc # "extract_load"
     /\ api_key \in {Null, ""}) =>
        /\ pc = "idle"
        /\ exit = "fail"
        /\ err = "ValueError"
        /\ requested = <<>>
        /\ ~srcIO
        /\ run_id = 0
        /\ conn = "none"
        /\ runInserted = {}
        /\ pending = EmptyBag
        /\ executed = <<>>

\* C10 witness: the invocation has failed on an empty key
C10_Witness ==
    /\ pc = "idle"
    /\ args.source = "api"
    /\ ~args.skip_ingest
    /\ api_key = ""
    /\ err = "ValueError"

\* C11: a page fetch makes at most RetryAttempts attempts: a further attempt is
\* made only while fewer were made, the page is obtained on one of the first
\* RetryAttempts attempts, the fetch raises exactly when RetryAttempts attempts
\* failed, and then the run is over with that page as the last one requested
C11_RetryBound ==
    /\ attempt \in 0..RetryAttempts
    /\ pc = "fetch" => attempt < RetryAttempts
    /\ pc = "page" => attempt \in 1..RetryAttempts
    /\ caught = "RetryError" =>
          /\ attempt = RetryAttempts
          /\ pc \in {"except", "idle"}
          /\ requested # <<>> /\ requested[Len(requested)] = page
          /\ Len(results) < Len(requested)
    /\ (pc = "except" /\ attempt = RetryAttempts /\ Len(results) < Len(requested))
          => caught = "RetryError"

\* C11 witness: a page was obtained on the last attempt allowed, and the run
\* before it was given up after RetryAttempts failures
C11_Witness ==
    /\ pc = "page"
    /\ attempt = RetryAttempts
    /\ invocations = 2
    /\ \E i \in 1..Len(log) : log[i].error_message = "RetryError"

\* C12: in the summary stage a failing query is reported inline, the
\* pipeline does not fail, every remaining query is still issued, and every
\* query reports its own result: an error only when the query itself fails
C12_SummaryIndependent ==
    /\ pc = "summary" => exit = "none"
    /\ "summary" \in Range(completed) =>
          /\ Len(sum_reports) = NumQueries
          /\ exit = "ok"
    /\ Len(sum_own) = Len(sum_reports)
    /\ \A i \in 1..Len(sum_reports) :
          sum_reports[i] = (IF sum_own[i] THEN "ERROR" ELSE "ok")

\* C13: a record with the key of an existing staging row and other fields
\* is skipped silently: in every step every staging row stays as it is, no
\* row with its key and other fields appears, and the commit of a batch with
\* such a record is a step that raises nothing
C13_ConflictKeepsRow ==
    [][ /\ \A q \in Rows(staging) :
              /\ CopiesIn(q, staging') = CopiesIn(q, staging)
              /\ \A r \in Rows(staging') : KeyOf(r) = KeyOf(q) => r = q
        /\ (CsvCommitStep \/ PageCommitStep) => exit' = "none" /\ err' = Null ]_vars

\* C13 witness: a run ended in success after it committed a batch with a
\* record whose key an earlier run had stored with another name; the row of
\* the earlier run is what staging holds
C13_Witness ==
    /\ invocations = 2
    /\ pc = "transform"
    /\ records # NoCount
    /\ log[run_id].status = "success"
    /\ \E i \in 1..Len(lastIngest.records) :
          LET r == lastIngest.records[i] IN
          /\ r \notin Rows(staging)
          /\ \E q \in Rows(staging) \ runInserted : KeyOf(q) = KeyOf(r) /\ q # r

\* the records of all the pages obtained, counted
RECURSIVE SumCounts(_)
SumCounts(res) == IF res = <<>> THEN 0 ELSE Head(res)[1] + SumCounts(Tail(res))

\* C14: the count an ingestor returns on success is the number of records it
\* submitted for upsert: the CSV ingestor records the row count of the file
\* as fetched and as loaded and returns it; the API ingestor records and
\* returns the sum of the record counts of its pages
C14_ReportedCount ==
    records # NoCount =>
        /\ log[run_id].status = "success"
        /\ log[run_id].records_loaded = records
        /\ args.source = "csv" =>
              /\ records = Len(rows)
              /\ log[run_id].records_fetched = records
        /\ args.source = "api" =>
              /\ records = SumCounts(results)
              /\ records = total_loaded

\* C14 witness: an API run returned the count of two pages whose records
\* have one key, so the store skipped one of the records counted
C14_Witness ==
    /\ args.source = "api"
    /\ records = 2
    /\ Len(committed) = 2
    /\ Cardinality(runInserted) = 1
    /\ log[run_id].records_loaded = 2

C16_ErrorPropagates ==
    /\ exit = "fail" =>
          /\ pc = "idle"
          /\ err # Null
          /\ caught # Null => err = caught
          /\ (~args.skip_ingest /\ records = NoCount) => executed = <<>>
          /\ executed # <<>> =>
                /\ err = "StageError"
                /\ completed = SubSeq(executed, 1, Len(executed) - 1)
    /\ exit = "ok" =>
          /\ err = Null
          /\ completed = Stages
          /\ ~args.skip_ingest => records # NoCount

\* the rows of the page that run() holds
PageRows == MapSeq(parse_event, data.events)

\* C17: a bulk upsert is atomic: a step of an ingestion run, the handling of
\* a failure included, commits to staging either nothing or all rows of the
\* batch at hand that are no duplicates
C17_BatchAtomic ==
    [][ /\ pc \in {"page", "except"} =>
              staging' = staging \/ staging' = execute_batch(staging, PageRows)
        /\ pc = "csv_load" =>
              staging' = staging \/ staging' = execute_batch(staging, rows) ]_vars

Ascending(s) == \A i \in 1..(Len(s) - 1) : s[i] < s[i + 1]

\* C18: within an API run the pages are requested and committed in strictly
\* ascending order, only requested pages are committed, and when a page is
\* requested every page requested before it has been committed: the
\* connection holds nothing uncommitted and the rows of the page before are
\* in staging
C18_PageOrder ==
    /\ Ascending(requested)
    /\ Ascending(committed)
    /\ Range(committed) \subseteq Range(requested)
    /\ \A i \in 1..(Len(requested) - 1) : requested[i] \in Range(committed)
    /\ (pc = "fetch" /\ page > 0) =>
          /\ conn = "idle" /\ pending = EmptyBag
          /\ committed[Len(committed)] = page - 1
          /\ \A r \in Range(lastIngest.records) : Conflicts(staging, r)

\* C18 witness: page 1 is being requested again after a failed attempt, with
\* the record of page 0 committed
C18_Witness ==
    /\ pc = "fetch"
    /\ page = 1
    /\ attempt = 1
    /\ requested = <<0, 1>>
    /\ committed = <<0>>
    /\ runInserted # {}

\* C19: nothing is rolled back to compensate a failure: no step removes a
\* committed staging row, run record or script effect, and when a stage has
\* raised, the rows and the 'success' record of the ingestion and the effects
\* of the stages completed before it are in the store of the halted pipeline
C19_NoCompensation ==
    /\ []((pc = "idle" /\ exit = "fail" /\ executed # <<>>) =>
            /\ \A s \in Range(completed) : <<invocations, s>> \in effects
            /\ runInserted \subseteq Rows(staging)
            /\ ~args.skip_ingest =>
                  /\ run_id \in 1..Len(log)
                  /\ log[run_id].status = "success"
                  /\ log[run_id].records_loaded = records)
    /\ [][ /\ effects \subseteq effects'
           /\ \A q \in Rows(staging) : CopiesIn(q, staging') >= CopiesIn(q, staging)
           /\ Len(log') >= Len(log) ]_vars

\* C19 witness: quality_checks raised after an ingestion that committed rows
\* and after two completed stages
C19_Witness ==
    /\ pc = "idle" /\ exit = "fail"
    /\ executed = <<"transform", "load_facts", "quality_checks">>
    /\ completed = <<"transform", "load_facts">>
    /\ runInserted # {}
    /\ log[run_id].status = "success"
    /\ {<<invocations, "transform">>, <<invocations, "load_facts">>} \subseteq effects

NoRepeat(s) == \A i, j \in 1..Len(s) : s[i] = s[j] => i = j

\* C20: every invocation that has started ends, in success or in failure;
\* the attempts per page and the pages per run are bounded, no stage is
\* entered twice, and a running invocation always has a next step
C20_Terminates ==
    /\ (pc # "idle") ~> (pc = "idle" /\ exit \in {"ok", "fail"})
    /\ [](/\ attempt <= RetryAttempts
          /\ Len(requested) <= max_pages
          /\ NoRepeat(requested)
          /\ NoRepeat(executed)
          /\ Len(sum_reports) <= NumQueries
          /\ pc # "idle" => ENABLED RunPaged)

\* C20 witness: an invocation ended after an API run that requested as many
\* pages as max_pages allows and spent all attempts on the last of them
C20_Witness ==
    /\ pc = "idle"
    /\ exit \in {"ok", "fail"}
    /\ max_pages = MaxPagesArg
    /\ Len(requested) = MaxPagesArg
    /\ attempt = RetryAttempts
    /\ invocations = MaxRuns

\* C21: the invocations the scheduler starts never overlap: at most one child
\* process is alive, and only while the scheduler is inside the job function
\* that started it; every earlier invocation has run to its end and its
\* return code was taken before the next starts; after a failed invocation
\* the scheduler is still in its loop and starts the next due job
C21_NoOverlap ==
    /\ children \in 0..1
    /\ sched \in {"off", "sleep", "pending"} =>
          /\ children = 0
          /\ pc = "idle"
          /\ spawned = Null /\ job = Null
          /\ Len(returncodes) = invocations
    /\ sched = "job" =>
          /\ children = 1
          /\ job \in Jobs
          /\ Len(returncodes) = invocations - (IF spawned = Null THEN 1 ELSE 0)
    /\ pc # "idle" => sched = "job" /\ spawned = Null /\ args = JobArgs(job)
    /\ invocations > 0 => sched # "off"
    /\ (sched = "pending" /\ due # <<>>) => ENABLED (run_full_pipeline \/ run_quality_only)

\* C21 witness: the hourly job runs its invocation after the daily job's
\* invocation has failed
C21_Witness ==
    /\ returncodes = << <<"full", "fail">> >>
    /\ sched = "job"
    /\ job = "quality"
    /\ pc = "quality_checks"
    /\ children = 1
    /\ invocations = 2
====
